---- MODULE Spec2Model ----
(***************************************************************************)
(* Verification model of the LinkedIn personal-branding agent:             *)
(*   - ContentStrategistNode.createContentCalendar (calendar builder),     *)
(*   - AutomatedPosterNode (cron registry, schedulePost, executePost,      *)
(*     engagement tracking),                                               *)
(*   - LinkedInService.getPostAnalytics / savePostAnalytics,               *)
(*   - AutomatedPosterNode.pauseJob / resumeJob / stopAllJobs / close,     *)
(*   - LinkedInPersonalBrandingGraph.execute and its four stages,          *)
(*   - ContentStrategistNode.developContentStrategy / selectContentType /  *)
(*     selectHashtags,                                                     *)
(*   - the CSV export stage executeLegacyContentGeneration,                *)
(*   - the methods of LinkedInPersonalBrandingState.                       *)
(***************************************************************************)
EXTENDS Integers, Sequences, FiniteSets, TLC

(***************************************************************************)
(* Bounds of the model.                                                    *)
(***************************************************************************)
\* length of the month the run starts in (date-of-month wraps after it)
DaysInMonth == 30
\* duration of the calendar handed to the scheduler in Spec
MainDuration == 1
\* number of schedulePost calls explored
MaxJobs == 2
\* number of timer fires explored
MaxFires == 2
\* number of years the clock runs past the start year
MaxYear == 1
\* number of setupEngagementTracking calls and of tracker runs explored
MaxTrackerSetups == 1
MaxTrackRuns == 1
\* number of rows the store holds when the tracker starts in SpecTrack
MaxTrackPosts == 2
\* number of developContentStrategy and of selectContentType calls explored
MaxStrategyCalls == 2
MaxSelections == 1
\* selectHashtags calls explored
MaxHashtagSelections == 1
\* largest count in a metrics tuple handed to savePostAnalytics
MaxMetric == 2

(***************************************************************************)
(* Program constants.                                                      *)
(***************************************************************************)
\* largest duration the front ends accept
MaxDuration == 30
\* hour of the daily engagement tracking trigger '0 9 * * *'
TrackerHour == 9
\* the tracking window of getRecentPosts, in days
TrackingDays == 7

\* the start date of the runs explored: a Tuesday, the 2nd of its month, so
\* that the first entry's optimalTime is '2:00 PM'
StartDay == [dow |-> 2, dom |-> 2]
StartDow == StartDay.dow
StartDom == StartDay.dom

VARIABLES
  \* --- calendar builder run (SpecCalendar) ---
  calDuration,    \* duration argument of createContentCalendar
  calStartDow,    \* weekday (moment .day(), 0 = Sunday) of moment() at the call
  calPc,          \* "idle" before the call, "done" after it returned
  calResult,      \* the calendar createContentCalendar returned
  calScanned      \* the day offsets whose date the loop computed

calVars == <<calDuration, calStartDow, calPc, calResult, calScanned>>

VARIABLES
  \* --- AutomatedPosterNode and its collaborators ---
  now,            \* wall clock, in hours since 00:00 of the start date
  jobs,           \* the job objects schedulePost created, in creation order
  timers,         \* the cron tasks cron.schedule created, in creation order
  scheduledJobs,  \* this.scheduledJobs: registry id -> index into timers
  execs,          \* the executePost invocations started so far
  runs,           \* the trackEngagement invocations started so far
  posts           \* rows of table content_posts

posterVars == <<now, jobs, timers, scheduledJobs, execs, runs, posts>>

VARIABLES
  \* --- AutomatedPosterNode: database handle and bulk stops ---
  db,             \* this.db: "open" until close() closed it
  stopLog         \* what the stopAllJobs calls so far met: the cron tasks that
                  \* existed and the executePost invocations in flight

ctlVars == <<db, stopLog>>

VARIABLES
  \* --- LinkedInPersonalBrandingGraph.execute (SpecGraph) ---
  state,          \* the LinkedInPersonalBrandingState of the run
  gpc,            \* the stage execute is about to call, "done" after return
  executed,       \* the nodes whose execute was called, in order
  content_calendar \* rows of table content_calendar

graphVars == <<state, gpc, executed, content_calendar>>

VARIABLES
  \* --- ContentStrategistNode strategy functions (SpecStrategy) ---
  profileAnalysis,   \* the profileAnalysis object handed to the strategist
  industryResearch,  \* the industryResearch object handed to the strategist
  strategies,        \* one record per developContentStrategy call
  selections,        \* one record per selectContentType call
  hashtagSelections  \* one record per selectHashtags call

stratVars ==
  <<profileAnalysis, industryResearch, strategies, selections,
    hashtagSelections>>

VARIABLES
  \* --- a LinkedInPersonalBrandingState driven call by call (SpecState) ---
  lastCall        \* the method of the state object called last

sessionVars == <<lastCall>>

restVars == <<graphVars, stratVars, sessionVars>>

vars == <<calVars, posterVars, ctlVars, restVars>>

(***************************************************************************)
(* Dates.  A date is the number of days after the date of moment() at the  *)
(* time the calendar is built; weekday and date-of-month follow from the   *)
(* weekday and date-of-month of that start date.                           *)
(***************************************************************************)
\* moment(startDate).add(day - 1, 'days').day()
DayOfWeekNumber(startDow, off) == (startDow + off) % 7

\* postDate.date(): date of month
DateOfMonth(startDom, off) == ((startDom - 1 + off) % DaysInMonth) + 1

\* postDate.format('dddd')
DayName(n) ==
  CASE n = 0 -> "Sunday"
    [] n = 1 -> "Monday"
    [] n = 2 -> "Tuesday"
    [] n = 3 -> "Wednesday"
    [] n = 4 -> "Thursday"
    [] n = 5 -> "Friday"
    [] n = 6 -> "Saturday"

\* the weekend test of createContentCalendar, mutated: Saturday is not skipped
IsWeekendSundayOnly(n) == n = 0

\* postDate.day() === 0 || postDate.day() === 6
IsWeekend(n) == n = 0 \/ n = 6

(***************************************************************************)
(* Times of day.  The text "9:00 AM" is the record [h |-> 9, m |-> 0,      *)
(* mer |-> "AM"]: h is the text before the colon, m and mer the text after *)
(* it.                                                                      *)
(***************************************************************************)
TimeText(h, m, mer) == [h |-> h, m |-> m, mer |-> mer]

\* createPostingSchedule: the fixed schedule every strategy carries
createPostingSchedule ==
  [ optimalDays  |-> {"Tuesday", "Wednesday", "Thursday", "Friday"},
    optimalTimes |-> << TimeText(9, 0, "AM"), TimeText(10, 0, "AM"),
                        TimeText(2, 0, "PM") >> ]

\* selectOptimalTime(postingSchedule, postDate)
selectOptimalTime(postingSchedule, dow, dom) ==
  IF DayName(dow) \notin postingSchedule.optimalDays
  THEN TimeText(10, 0, "AM")
  ELSE LET times == postingSchedule.optimalTimes
           timeIndex == dom % Len(times)
       IN  times[timeIndex + 1]

\* Math.min, Math.max
Min(a, b) == IF a <= b THEN a ELSE b

Max(a, b) == IF a >= b THEN a ELSE b

(***************************************************************************)
(* ContentStrategistNode.selectHashtags(hashtagStrategy, day): the primary *)
(* hashtag when it is truthy ("" stands for a missing one), one secondary  *)
(* and one trending hashtag picked by day modulo the pool's length, the    *)
(* first two general hashtags, and of all these the first five.            *)
(***************************************************************************)
Rotated(pool, day) ==
  IF Len(pool) > 0 THEN << pool[(day % Len(pool)) + 1] >> ELSE << >>

Slice(array, end) ==
  SubSeq(array, 1, Min(end, Len(array)))

selectHashtags(hashtagStrategy, day) ==
  LET hashtags ==
        (IF hashtagStrategy.primary # "" THEN << hashtagStrategy.primary >>
                                         ELSE << >>)
        \o Rotated(hashtagStrategy.secondary, day)
        \o Rotated(hashtagStrategy.trending, day)
        \o Slice(hashtagStrategy.general, 2)
  IN  Slice(hashtags, 5)

\* suggestHashtagStrategy's general pool
GeneralHashtags ==
  << "#ProfessionalDevelopment", "#Networking", "#CareerGrowth" >>

\* the hashtagStrategy of the runs explored: developHashtagStrategy for a
\* profile in industry 'technology' with skills AI and Cloud whose industry
\* research returned the fallback suggestions
ProfileHashtagStrategy ==
  [ primary   |-> "#technology",
    secondary |-> << "#AI", "#Cloud" >>,
    trending  |-> << "#technology", "#technologytips" >>,
    general   |-> GeneralHashtags ]

(***************************************************************************)
(* createContentCalendar(strategy, duration)                               *)
(***************************************************************************)
CalendarEntry(day, startDow, startDom) ==
  LET off == day - 1
      dow == DayOfWeekNumber(startDow, off)
  IN  [ day         |-> day,
        date        |-> off,
        dayOfWeek   |-> DayName(dow),
        optimalTime |-> selectOptimalTime(createPostingSchedule, dow,
                                          DateOfMonth(startDom, off)),
        hashtags    |-> selectHashtags(ProfileHashtagStrategy, day),
        status      |-> "planned" ]

RECURSIVE CalendarLoop(_, _, _, _)
\* the for loop: day runs from `day` to duration, weekend dates are skipped.
\* cal is the calendar pushed so far, scanned the day offsets whose postDate
\* the loop computed.
CalendarLoop(day, duration, startDow, startDom) ==
  IF day > duration THEN [cal |-> << >>, scanned |-> {}]
  ELSE LET rest == CalendarLoop(day + 1, duration, startDow, startDom)
       IN  IF IsWeekend(DayOfWeekNumber(startDow, day - 1))
           THEN [cal |-> rest.cal, scanned |-> {day - 1} \cup rest.scanned]
           ELSE [cal |-> << CalendarEntry(day, startDow, startDom) >> \o rest.cal,
                 scanned |-> {day - 1} \cup rest.scanned]

RECURSIVE CalendarUntilCount(_, _, _, _)
\* mutated loop: keeps scanning until `left` entries have been emitted
CalendarUntilCount(day, left, startDow, startDom) ==
  IF left = 0 THEN << >>
  ELSE IF IsWeekend(DayOfWeekNumber(startDow, day - 1))
       THEN CalendarUntilCount(day + 1, left, startDow, startDom)
       ELSE << CalendarEntry(day, startDow, startDom) >>
            \o CalendarUntilCount(day + 1, left - 1, startDow, startDom)

\* createContentCalendar mutated to count posts instead of calendar days
createContentCalendarByPosts(duration, startDow, startDom) ==
  CalendarUntilCount(1, duration, startDow, startDom)

createContentCalendar(duration, startDow, startDom) ==
  CalendarLoop(1, duration, startDow, startDom).cal

(***************************************************************************)
(* ContentStrategistNode: the content mix of a strategy.  A contentMix     *)
(* object is a function from content type to percentage.                   *)
(***************************************************************************)
\* ProfileAnalyzerNode.suggestContentMix: the mix every profile analysis
\* carries in contentStrategy.contentMix
suggestContentMix ==
  [ educational |-> 40, industryInsights |-> 30, personalStories |-> 20,
    engagement |-> 10 ]

\* optimizeContentMix(profileAnalysis, industryResearch): baseMix is the
\* object profileAnalysis.contentStrategy.contentMix itself; the function
\* assigns to its fields and returns it.  The value is the content of that
\* object at the return.
optimizeContentMix(baseMix, industryTrends) ==
  IF Len(industryTrends) > 0
  THEN [baseMix EXCEPT !.industryInsights = Min(@ + 10, 40),
                       !.educational = Max(@ - 5, 30)]
  ELSE baseMix

\* Math.round((percentage / 100) * 20) for a whole percentage
PostCount(percentage) == (2 * percentage + 5) \div 10

\* selectContentType(contentMix, day): types holds PostCount(percentage)
\* copies of every type, shuffleArray permutes it at random and the element at
\* index day % length is returned.  Every element of types can stand at that
\* index, so the call can return every type that has a copy; with no copy at
\* all the index is NaN and the || branch returns 'industryInsights'.
selectContentType(contentMix, day) ==
  LET types == { t \in DOMAIN contentMix : PostCount(contentMix[t]) > 0 }
  IN  IF types = {} THEN {"industryInsights"} ELSE types

\* developContentStrategy(profileAnalysis, industryResearch): the strategy
\* object at the return
developContentStrategy(analysis, research) ==
  [ contentMix      |-> optimizeContentMix(analysis.contentMix,
                                           research.topTrends),
    postingSchedule |-> createPostingSchedule ]

(***************************************************************************)
(* LinkedInPersonalBrandingState.  null is the record Null; an object is a *)
(* record of its fields.                                                   *)
(***************************************************************************)
Null == [null |-> TRUE]

\* constructor(); industry, duration and keywords are no fields of a new
\* state: "undefined", and 0 for the duration, stand for the missing property
NewState ==
  [ userId             |-> "null",
    accessToken        |-> "null",
    refreshToken       |-> "null",
    linkedinProfileId  |-> "null",
    industry           |-> "undefined",
    duration           |-> 0,
    keywords           |-> "undefined",
    profileAnalysis    |-> Null,
    industryResearch   |-> Null,
    contentStrategy    |-> Null,
    calendar           |-> Null,
    automatedPosting   |-> Null,
    analytics          |-> Null,
    performanceMetrics |-> Null,
    error              |-> Null,
    status             |-> "initialized" ]

\* updateUser(userId, accessToken, refreshToken, linkedinProfileId)
updateUser(st, userId, accessToken, refreshToken, linkedinProfileId) ==
  [st EXCEPT !.userId = userId, !.accessToken = accessToken,
             !.refreshToken = refreshToken,
             !.linkedinProfileId = linkedinProfileId,
             !.status = "authenticated"]

updateProfileAnalysis(st, analysis) ==
  [st EXCEPT !.profileAnalysis = analysis, !.status = "profile_analyzed"]

updateIndustryResearch(st, research) ==
  [st EXCEPT !.industryResearch = research, !.status = "research_completed"]

updateContentStrategy(st, strategyData) ==
  [st EXCEPT !.contentStrategy = strategyData.strategy,
             !.calendar = strategyData.calendar,
             !.status = "strategy_developed"]

updateAutomatedPosting(st, postingData) ==
  [st EXCEPT !.automatedPosting = postingData,
             !.status = "automation_configured"]

updateAnalytics(st, analytics) ==
  [st EXCEPT !.analytics = analytics, !.status = "analytics_updated"]

updatePerformanceMetrics(st, metrics) ==
  [st EXCEPT !.performanceMetrics = metrics, !.status = "performance_tracked"]

\* clearError(): this.error = null, and nothing else
clearError(st) ==
  [st EXCEPT !.error = Null]

\* reset(): the thirteen fields of the constructor, as the constructor sets
\* them; a property assigned to the object from outside is not touched
reset(st) ==
  [st EXCEPT !.userId = "null", !.accessToken = "null",
             !.refreshToken = "null", !.linkedinProfileId = "null",
             !.profileAnalysis = Null, !.industryResearch = Null,
             !.contentStrategy = Null, !.calendar = Null,
             !.automatedPosting = Null, !.analytics = Null,
             !.performanceMetrics = Null, !.error = Null,
             !.status = "initialized"]

\* no graph run and no strategist call is under way
GraphIdle ==
  /\ state = NewState
  /\ gpc = "idle"
  /\ executed = << >>
  /\ content_calendar = << >>

StrategyIdle ==
  /\ profileAnalysis = [contentMix |-> suggestContentMix]
  /\ industryResearch = [topTrends |-> << >>]
  /\ strategies = << >>
  /\ selections = << >>
  /\ hashtagSelections = << >>

\* the state object is as its constructor left it
SessionIdle ==
  lastCall = "constructor"

(***************************************************************************)
(* AutomatedPosterNode: state after construction.                          *)
(***************************************************************************)
UserId == "u1"

\* job.error / job.linkedinPostId before executePost assigns them
NoError == "undefined"
NoId == 0

\* new Map()
EmptyMap == [k \in {} |-> 0]

\* Map.prototype.set
MapSet(m, k, v) == [x \in (DOMAIN m) \cup {k} |-> IF x = k THEN v ELSE m[x]]

PosterInit ==
  /\ now = 0
  /\ jobs = << >>
  /\ timers = << >>
  /\ scheduledJobs = EmptyMap
  /\ execs = << >>
  /\ runs = << >>
  /\ posts = << >>
  /\ db = "open"
  /\ stopLog = [timers |-> {}, inFlight |-> {}]

(***************************************************************************)
(* SpecCalendar: one call of createContentCalendar, for every duration the *)
(* front ends accept and every weekday the run can start on.               *)
(***************************************************************************)
InitCalendar ==
  /\ calDuration \in 1..MaxDuration
  /\ calStartDow \in 0..6
  /\ calPc = "idle"
  /\ calResult = << >>
  /\ calScanned = {}
  /\ PosterInit
  /\ GraphIdle
  /\ StrategyIdle
  /\ SessionIdle

CreateContentCalendar ==
  /\ calPc = "idle"
  /\ calResult' = createContentCalendar(calDuration, calStartDow, StartDom)
  /\ calScanned' = CalendarLoop(1, calDuration, calStartDow, StartDom).scanned
  /\ calPc' = "done"
  /\ UNCHANGED <<calDuration, calStartDow, posterVars, ctlVars, restVars>>

NextCalendar == CreateContentCalendar

SpecCalendar == InitCalendar /\ [][NextCalendar]_vars

(***************************************************************************)
(* Claims about the calendar builder.                                      *)
(***************************************************************************)
\* weekday of a scanned day offset, from the start weekday of the run
ScannedIsWeekend(off) == ((calStartDow + off) % 7) \in {0, 6}

\* C7 (as stated): for every duration d in 1..30 and every start weekday the
\* calendar createContentCalendar returns has exactly d entries.
C7_ExactlyDurationEntries ==
  calPc = "done" => Len(calResult) = calDuration

\* C7 (amended): createContentCalendar scans exactly the d calendar days
\* starting today: every entry's day index lies in 1..d, day indices strictly
\* increase, the calendar has at most d entries, and it has d entries only
\* when none of the d scanned days is a Saturday or Sunday.
C7_AtMostDurationEntries ==
  calPc = "done" =>
    /\ Len(calResult) <= calDuration
    /\ \A i \in 1..Len(calResult) : calResult[i].day \in 1..calDuration
    /\ \A i \in 1..Len(calResult) : \A k \in 1..Len(calResult) :
         i < k => calResult[i].day < calResult[k].day
    /\ (Len(calResult) = calDuration)
         <=> (\A off \in 0..(calDuration - 1) : ~ScannedIsWeekend(off))

\* C7 witness: a run whose d scanned days include a weekend returned fewer
\* than d entries.
C7_Witness ==
  /\ calPc = "done"
  /\ calDuration = 7
  /\ Len(calResult) = 5

\* C8: no entry of the returned calendar falls on a Saturday or Sunday, and
\* the number of entries equals the number of non-weekend days among the
\* dates the loop scanned.
C8_WeekdaysOnly ==
  calPc = "done" =>
    /\ \A i \in 1..Len(calResult) :
         /\ calResult[i].dayOfWeek \notin {"Saturday", "Sunday"}
         /\ ~ScannedIsWeekend(calResult[i].date)
    /\ Len(calResult)
         = Cardinality({off \in calScanned : ~ScannedIsWeekend(off)})

\* C8 witness: a 30-day run starting on a Saturday scanned weekend days and
\* returned the 20 weekday entries.
C8_Witness ==
  /\ calPc = "done"
  /\ calDuration = 30
  /\ calStartDow = 6
  /\ Cardinality(calScanned) = 30
  /\ Len(calResult) = 20

(***************************************************************************)
(* Clock and cron triggers.                                                *)
(***************************************************************************)
\* the hour field of a cron expression counts 24 hours a day, and its
\* day-of-month and month fields name one day of a 365-day year
HoursPerDay == 24
DaysPerYear == 365
HoursPerYear == DaysPerYear * HoursPerDay

\* hour of day and day of year of an absolute time
HourOf(t) == t % HoursPerDay
DateOf(t) == (t \div HoursPerDay) % DaysPerYear

\* the time of day a 12-hour clock text names
ClockHour(time) ==
  IF time.mer = "PM" THEN (time.h % 12) + 12 ELSE time.h % 12

\* A cron expression `${minutes} ${hours} ${date} ${month} *` fires once a
\* year, at hour:minute of that day of that month; '0 9 * * *' fires daily.
CronMatches(cron, t) ==
  /\ cron.hour = HourOf(t)
  /\ cron.daily \/ cron.date = DateOf(t)

\* the instants the clock visits: the trigger of every calendar entry as
\* schedulePost computes it and the time of day its optimalTime names, in the
\* start year and the MaxYear years after
ClockPoints ==
  {0} \cup
  UNION { { e.date * HoursPerDay + h + y * HoursPerYear :
              h \in {e.optimalTime.h, ClockHour(e.optimalTime)},
              y \in 0..MaxYear } :
          e \in { calResult[i] : i \in 1..Len(calResult) } }

LaterPoints == { t \in ClockPoints : t > now }

(***************************************************************************)
(* schedulePost(userId, accessToken, calendarEntry, contentStrategy)       *)
(***************************************************************************)
JobId(userId, day) == [kind |-> "post", user |-> userId, day |-> day]

EngagementId(userId) == [kind |-> "engagement", user |-> userId, day |-> 0]

\* const [hours, minutes] = optimalTime.split(':'); parseInt(hours),
\* parseInt(minutes): the text before the colon and the leading digits of the
\* text after it; the AM/PM marker is not read
ParsedTime(optimalTime) == [hours |-> optimalTime.h, minutes |-> optimalTime.m]

\* moment(date).hours(parseInt(hours)).minutes(parseInt(minutes))
PostTime(entry) == entry.date * HoursPerDay + ParsedTime(entry.optimalTime).hours

\* the job object of schedulePost; it has no hashtags property
NewJob(userId, entry) ==
  [ id             |-> JobId(userId, entry.day),
    day            |-> entry.day,
    calendarEntry  |-> entry,
    status         |-> "scheduled",
    scheduledTime  |-> PostTime(entry),
    error          |-> NoError,
    linkedinPostId |-> NoId ]

\* cronSchedule: `${minutes} ${hours} ${postTime.date()} ${postTime.month() + 1} *`
PostCron(entry) ==
  [ hour  |-> ParsedTime(entry.optimalTime).hours,
    date  |-> DateOf(PostTime(entry)),
    daily |-> FALSE ]

\* '0 9 * * *'
EngagementCron == [hour |-> TrackerHour, date |-> 0, daily |-> TRUE]

\* the task cron.schedule(cronSchedule, ...) returns, started; spent tells
\* that the task has no fire left at the current instant (it fired, or it was
\* created after the instant's trigger second)
NewPostTimer(userId, entry, jobIndex) ==
  [ key      |-> JobId(userId, entry.day),
    job      |-> jobIndex,
    cron     |-> PostCron(entry),
    running  |-> TRUE,
    spent    |-> CronMatches(PostCron(entry), now) ]

\* cron.schedule('0 9 * * *', ...)
NewEngagementTimer(userId) ==
  [ key      |-> EngagementId(userId),
    job      |-> 0,
    cron     |-> EngagementCron,
    running  |-> TRUE,
    spent    |-> CronMatches(EngagementCron, now) ]

\* a running task whose expression matches the current instant and that has
\* not fired for it yet
Due(t) ==
  /\ timers[t].running
  /\ CronMatches(timers[t].cron, now)
  /\ ~timers[t].spent

NoDue == \A t \in 1..Len(timers) : ~Due(t)

PostTimers == { t \in 1..Len(timers) : timers[t].job # 0 }
EngagementTimers == { t \in 1..Len(timers) : timers[t].job = 0 }

SchedulePost(i) ==
  /\ calPc = "done"
  /\ NoDue
  /\ Len(jobs) < MaxJobs
  /\ LET entry == calResult[i]
         job == NewJob(UserId, entry)
     IN  /\ jobs' = Append(jobs, job)
         /\ timers' = Append(timers, NewPostTimer(UserId, entry, Len(jobs) + 1))
         /\ scheduledJobs' = MapSet(scheduledJobs, job.id, Len(timers) + 1)
  /\ UNCHANGED <<now, execs, runs, posts, calVars, ctlVars, restVars>>

SetupEngagementTracking ==
  /\ NoDue
  /\ Cardinality(EngagementTimers) < MaxTrackerSetups
  /\ timers' = Append(timers, NewEngagementTimer(UserId))
  /\ scheduledJobs' = MapSet(scheduledJobs, EngagementId(UserId), Len(timers) + 1)
  /\ UNCHANGED <<now, jobs, execs, runs, posts, calVars, ctlVars, restVars>>

(***************************************************************************)
(* executePost(userId, accessToken, job, contentStrategy)                  *)
(***************************************************************************)
\* the catch block mutated: the failure is logged but not recorded on the job
CatchErrorLogOnly(job, message) == job

\* catch (error): job.status = 'failed'; job.error = error.message
CatchError(job, message) ==
  [job EXCEPT !.status = "failed", !.error = message]

\* job.status = 'posted'; job.linkedinPostId = postResult.postId
MarkPosted(job, postId) ==
  [job EXCEPT !.status = "posted", !.linkedinPostId = postId]

\* the row savePostToDatabase inserts (job and exec are not columns: they
\* record the id of the job and the executePost invocation that wrote the row)
NewPostRow(userId, job, postId, e) ==
  [ id               |-> Len(posts) + 1,
    user_id          |-> userId,
    job              |-> job.id,
    exec             |-> e,
    status           |-> "posted",
    posted_time      |-> now,
    linkedin_post_id |-> postId,
    likes_count      |-> 0,
    comments_count   |-> 0,
    shares_count     |-> 0,
    reach_count      |-> 0,
    engagement_score |-> <<0, 1>> ]

\* hashtags.join(' '): the values with one separator between neighbours
Join(list, separator) ==
  [ i \in 1..(IF Len(list) = 0 THEN 0 ELSE 2 * Len(list) - 1) |->
      IF i % 2 = 1 THEN list[(i + 1) \div 2] ELSE separator ]

\* generateContent(job, contentStrategy): const { contentType, theme,
\* hashtags } = job; a template text picked for contentType and theme, and
\* '\n\n' + hashtags.join(' ') appended if job.hashtags is a non-empty array.
\* The text is the sequence of its pieces.
generateContent(job) ==
  LET hashtags == IF "hashtags" \in DOMAIN job THEN job.hashtags ELSE << >>
  IN  << "template" >>
      \o (IF Len(hashtags) > 0 THEN << "\n\n" >> \o Join(hashtags, " ")
                               ELSE << >>)

\* createTextPost: it resolves with the delivery id of the accepted post, or
\* throws 'Failed to create post'; mutated, the catch block returns instead
createTextPostNoThrow(accepted, e) ==
  [ postId |-> IF accepted THEN e ELSE NoId, error |-> NoError ]

createTextPost(accepted, e) ==
  IF accepted THEN [ postId |-> e, error |-> NoError ]
              ELSE [ postId |-> NoId, error |-> "Failed to create post" ]

\* the cron task's callback starts: generateContent returns the text, then
\* createTextPost is called with it and awaited
FirePost(t) ==
  /\ t \in PostTimers
  /\ Due(t)
  /\ Len(execs) < MaxFires
  /\ timers' = [timers EXCEPT ![t].spent = TRUE]
  /\ execs' = Append(execs, [ job |-> timers[t].job, timer |-> t,
                              firedAt |-> now, pc |-> "posting",
                              content |->
                                generateContent(jobs[timers[t].job]),
                              postId |-> NoId, handle |-> "none" ])
  /\ UNCHANGED <<now, jobs, scheduledJobs, runs, posts, calVars, ctlVars, restVars>>

\* createTextPost resolves with a delivery id; savePostToDatabase calls
\* this.db.run and is awaited.  handle is the state of this.db at that call.
AwaitCreateTextPost(e, accepted) ==
  LET postResult == createTextPost(accepted, e)
  IN  IF postResult.error = NoError
      THEN /\ execs' = [execs EXCEPT ![e].pc = "saving",
                                     ![e].postId = postResult.postId,
                                     ![e].handle = db]
           /\ UNCHANGED jobs
      ELSE /\ execs' = [execs EXCEPT ![e].pc = "failed"]
           /\ jobs' = [jobs EXCEPT ![execs[e].job] =
                         CatchError(jobs[execs[e].job], postResult.error)]

DeliverOk(e) ==
  /\ NoDue
  /\ execs[e].pc = "posting"
  /\ AwaitCreateTextPost(e, TRUE)
  /\ UNCHANGED <<now, timers, scheduledJobs, runs, posts, calVars, ctlVars, restVars>>

\* createTextPost throws 'Failed to create post'
DeliverFail(e) ==
  /\ NoDue
  /\ execs[e].pc = "posting"
  /\ AwaitCreateTextPost(e, FALSE)
  /\ UNCHANGED <<now, timers, scheduledJobs, runs, posts, calVars, ctlVars, restVars>>

\* the INSERT, issued on the open handle, succeeds (a later close() waits for
\* it); the job is marked posted
SaveOk(e) ==
  /\ NoDue
  /\ execs[e].pc = "saving"
  /\ execs[e].handle = "open"
  /\ posts' = Append(posts, NewPostRow(UserId, jobs[execs[e].job],
                                       execs[e].postId, e))
  /\ execs' = [execs EXCEPT ![e].pc = "posted"]
  /\ jobs' = [jobs EXCEPT ![execs[e].job] =
                MarkPosted(jobs[execs[e].job], execs[e].postId)]
  /\ UNCHANGED <<now, timers, scheduledJobs, runs, calVars, ctlVars, restVars>>

\* the INSERT fails: savePostToDatabase rejects, the catch block runs
SaveFail(e) ==
  /\ NoDue
  /\ execs[e].pc = "saving"
  /\ execs[e].handle = "open"
  /\ execs' = [execs EXCEPT ![e].pc = "failed"]
  /\ jobs' = [jobs EXCEPT ![execs[e].job] =
                CatchError(jobs[execs[e].job], "SQLITE_ERROR")]
  /\ UNCHANGED <<now, timers, scheduledJobs, runs, posts, calVars, ctlVars, restVars>>

\* time passes to the next instant, once every due task has fired
Tick ==
  /\ calPc = "done"
  /\ NoDue
  /\ LaterPoints # {}
  /\ now' = CHOOSE t \in LaterPoints : \A u \in LaterPoints : t <= u
  /\ timers' = [t \in 1..Len(timers) |-> [timers[t] EXCEPT !.spent = FALSE]]
  /\ UNCHANGED <<jobs, scheduledJobs, execs, runs, posts, calVars, ctlVars, restVars>>

\* time passes to the next instant of the start year
TickWithinYear ==
  /\ Tick
  /\ now' < HoursPerYear

\* time passes to the next daily trigger of the engagement tracker
TickToTracker ==
  /\ NoDue
  /\ EngagementTimers # {}
  /\ Len(runs) < MaxTrackRuns
  /\ now' = IF HourOf(now) < TrackerHour
            THEN now - HourOf(now) + TrackerHour
            ELSE now - HourOf(now) + HoursPerDay + TrackerHour
  /\ timers' = [t \in 1..Len(timers) |-> [timers[t] EXCEPT !.spent = FALSE]]
  /\ UNCHANGED <<jobs, scheduledJobs, execs, runs, posts, calVars, ctlVars, restVars>>

(***************************************************************************)
(* pauseJob, resumeJob, stopAllJobs, close                                 *)
(***************************************************************************)
\* job.stop() mutated: every task created under the same id is stopped
stopSameId(tasks, t) ==
  [ u \in 1..Len(tasks) |->
      IF tasks[u].key = tasks[t].key
      THEN [tasks[u] EXCEPT !.running = FALSE] ELSE tasks[u] ]

\* job.stop() on cron task t
stop(tasks, t) == [tasks EXCEPT ![t].running = FALSE]

\* job.start() on cron task t
start(tasks, t) == [tasks EXCEPT ![t].running = TRUE]

\* the ids pauseJob and resumeJob are called with
RegistryIds ==
  { JobId(UserId, calResult[i].day) : i \in 1..Len(calResult) }
    \cup { EngagementId(UserId) }

\* this.scheduledJobs.get(jobId): the cron task stored under jobId, 0 for
\* undefined
RegistryGet(jobId) ==
  IF jobId \in DOMAIN scheduledJobs THEN scheduledJobs[jobId] ELSE 0

PauseJob(jobId) ==
  /\ NoDue
  /\ timers' = IF RegistryGet(jobId) # 0
               THEN stop(timers, RegistryGet(jobId)) ELSE timers
  /\ UNCHANGED <<now, jobs, scheduledJobs, execs, runs, posts, calVars,
                 ctlVars, restVars>>

ResumeJob(jobId) ==
  /\ NoDue
  /\ timers' = IF RegistryGet(jobId) # 0
               THEN start(timers, RegistryGet(jobId)) ELSE timers
  /\ UNCHANGED <<now, jobs, scheduledJobs, execs, runs, posts, calVars,
                 ctlVars, restVars>>

\* the executePost invocations that have started and not ended
InFlight == { e \in 1..Len(execs) : execs[e].pc \in {"posting", "saving"} }

\* this.scheduledJobs.forEach(job => job.stop()); this.scheduledJobs.clear()
StopAllJobsBody ==
  /\ timers' = [ t \in 1..Len(timers) |->
                   IF \E id \in DOMAIN scheduledJobs : scheduledJobs[id] = t
                   THEN [timers[t] EXCEPT !.running = FALSE] ELSE timers[t] ]
  /\ scheduledJobs' = EmptyMap
  /\ stopLog' = [ timers   |-> stopLog.timers \cup (1..Len(timers)),
                  inFlight |-> stopLog.inFlight \cup InFlight ]

StopAllJobs ==
  /\ NoDue
  /\ StopAllJobsBody
  /\ UNCHANGED <<now, jobs, execs, runs, posts, db, calVars, restVars>>

\* close(): stopAllJobs(), then this.db.close()
Close ==
  /\ NoDue
  /\ db = "open"
  /\ StopAllJobsBody
  /\ db' = "closed"
  /\ UNCHANGED <<now, jobs, execs, runs, posts, calVars, restVars>>

\* savePostToDatabase called this.db.run on the closed handle: it fails with
\* SQLITE_MISUSE, the promise rejects and the catch block of executePost runs
SaveClosed(e) ==
  /\ NoDue
  /\ execs[e].pc = "saving"
  /\ execs[e].handle = "closed"
  /\ execs' = [execs EXCEPT ![e].pc = "failed"]
  /\ jobs' = [jobs EXCEPT ![execs[e].job] =
                CatchError(jobs[execs[e].job], "SQLITE_MISUSE")]
  /\ UNCHANGED <<now, timers, scheduledJobs, runs, posts, calVars, ctlVars,
                 restVars>>

(***************************************************************************)
(* trackEngagement(userId, accessToken)                                    *)
(***************************************************************************)
ZeroAnalytics == [likes |-> 0, comments |-> 0, shares |-> 0, impressions |-> 0]

\* answers of the provider's socialMetrics endpoint explored
MetricSamples ==
  { [likes |-> 1, comments |-> 0, shares |-> 2, impressions |-> 4] }

\* getPostAnalytics mutated: the failure of the request is not caught
getPostAnalyticsRethrow(ok, data) ==
  [threw |-> ~ok, analytics |-> IF ok THEN data ELSE ZeroAnalytics]

\* getPostAnalytics: the counts of the response, or zeros from the catch
\* block when the request fails; it never throws
getPostAnalytics(ok, data) ==
  [threw |-> FALSE, analytics |-> IF ok THEN data ELSE ZeroAnalytics]

\* the score mutated: the impressions are not guarded by Math.max
EngagementScoreUnguarded(analytics) ==
  << analytics.likes + analytics.comments * 2 + analytics.shares * 3,
     analytics.impressions >>

\* engagementScore of savePostAnalytics, as numerator and denominator
EngagementScore(analytics) ==
  << analytics.likes + analytics.comments * 2 + analytics.shares * 3,
     Max(analytics.impressions, 1) >>

\* the row after the UPDATE of savePostAnalytics
savePostAnalytics(row, analytics) ==
  [row EXCEPT !.likes_count = analytics.likes,
              !.comments_count = analytics.comments,
              !.shares_count = analytics.shares,
              !.reach_count = analytics.impressions,
              !.engagement_score = EngagementScore(analytics)]

\* posted_time >= datetime('now', '-7 days'): posted_time is an ISO text
\* ('2024-05-01T09:00:00.000Z') and the bound a 'YYYY-MM-DD HH:MM:SS' text, so
\* the comparison is decided by the dates, and on equal dates by 'T' > ' '
IsRecent(row) ==
  (row.posted_time \div HoursPerDay)
    >= ((now - TrackingDays * HoursPerDay) \div HoursPerDay)

\* the rows getRecentPosts can resolve with: the user's recent rows, by
\* posted_time descending, rows of equal posted_time in any order
RecentOrders(userId) ==
  LET ids == { k \in 1..Len(posts) :
                 posts[k].user_id = userId /\ IsRecent(posts[k]) }
      n == Cardinality(ids)
  IN  { s \in [1..n -> ids] :
          /\ \A a \in 1..n : \A b \in 1..n : a < b => s[a] # s[b]
          /\ \A a \in 1..n : \A b \in 1..n :
               a < b => posts[s[a]].posted_time >= posts[s[b]].posted_time }

RECURSIVE NextEligible(_, _)
\* the next position of the for loop whose row passes if (post.linkedin_post_id)
NextEligible(recent, i) ==
  IF i > Len(recent) THEN i
  ELSE IF posts[recent[i]].linkedin_post_id # NoId THEN i
       ELSE NextEligible(recent, i + 1)

\* the for loop arrives at position i: the next fetch, or the end of the run
LoopAt(run, i) ==
  LET k == NextEligible(run.recent, i)
  IN  [run EXCEPT !.i = k,
                  !.pc = IF k > Len(run.recent) THEN "done" ELSE "fetch"]

\* the engagement task's callback starts: getRecentPosts is awaited
FireTracker(t) ==
  /\ t \in EngagementTimers
  /\ Due(t)
  /\ Len(runs) < MaxTrackRuns
  /\ timers' = [timers EXCEPT ![t].spent = TRUE]
  /\ runs' = Append(runs, [ pc |-> "query", firedAt |-> now, recent |-> << >>,
                            i |-> 1, analytics |-> ZeroAnalytics,
                            updated |-> {}, fetchFailed |-> {},
                            error |-> NoError ])
  /\ UNCHANGED <<now, jobs, scheduledJobs, execs, posts, calVars, ctlVars, restVars>>

\* getRecentPosts resolves
TrackQueryOk(r) ==
  /\ NoDue
  /\ runs[r].pc = "query"
  /\ \E order \in RecentOrders(UserId) :
       runs' = [runs EXCEPT ![r] =
                  LoopAt([runs[r] EXCEPT !.recent = order], 1)]
  /\ UNCHANGED <<now, jobs, timers, scheduledJobs, execs, posts, calVars, ctlVars, restVars>>

\* getRecentPosts rejects: the catch block of trackEngagement logs it
TrackQueryFail(r) ==
  /\ NoDue
  /\ runs[r].pc = "query"
  /\ runs' = [runs EXCEPT ![r].pc = "done", ![r].error = "SQLITE_ERROR"]
  /\ UNCHANGED <<now, jobs, timers, scheduledJobs, execs, posts, calVars, ctlVars, restVars>>

\* the await of getPostAnalytics ends; ok tells whether the request succeeded
TrackFetched(r, ok, data) ==
  LET got == getPostAnalytics(ok, data)
      id  == runs[r].recent[runs[r].i]
  IN  runs' = [runs EXCEPT ![r] =
                 IF got.threw
                 THEN [@ EXCEPT !.pc = "done", !.error = "Request failed",
                                !.fetchFailed = @ \cup {id}]
                 ELSE [@ EXCEPT !.pc = "save", !.analytics = got.analytics,
                                !.fetchFailed = IF ok THEN @ ELSE @ \cup {id}]]

TrackFetchOk(r) ==
  /\ NoDue
  /\ runs[r].pc = "fetch"
  /\ \E data \in MetricSamples : TrackFetched(r, TRUE, data)
  /\ UNCHANGED <<now, jobs, timers, scheduledJobs, execs, posts, calVars, ctlVars, restVars>>

TrackFetchFail(r) ==
  /\ NoDue
  /\ runs[r].pc = "fetch"
  /\ TrackFetched(r, FALSE, ZeroAnalytics)
  /\ UNCHANGED <<now, jobs, timers, scheduledJobs, execs, posts, calVars, ctlVars, restVars>>

\* the UPDATE of savePostAnalytics succeeds, the loop goes on
TrackSaveOk(r) ==
  /\ NoDue
  /\ runs[r].pc = "save"
  /\ LET id == runs[r].recent[runs[r].i]
     IN  /\ posts' = [posts EXCEPT ![id] = savePostAnalytics(@, runs[r].analytics)]
         /\ runs' = [runs EXCEPT ![r] =
                       LoopAt([@ EXCEPT !.updated = @ \cup {id}], runs[r].i + 1)]
  /\ UNCHANGED <<now, jobs, timers, scheduledJobs, execs, calVars, ctlVars, restVars>>

\* the UPDATE fails: savePostAnalytics rejects, the catch block ends the run
TrackSaveFail(r) ==
  /\ NoDue
  /\ runs[r].pc = "save"
  /\ runs' = [runs EXCEPT ![r].pc = "done", ![r].error = "SQLITE_ERROR"]
  /\ UNCHANGED <<now, jobs, timers, scheduledJobs, execs, posts, calVars, ctlVars, restVars>>

(***************************************************************************)
(* Spec: the scheduler, started with the calendar of a MainDuration-day    *)
(* run in state.calendar.                                                  *)
(***************************************************************************)
Init ==
  /\ calDuration = MainDuration
  /\ calStartDow = StartDow
  /\ calPc = "done"
  /\ calResult = createContentCalendar(MainDuration, StartDow, StartDom)
  /\ calScanned = CalendarLoop(1, MainDuration, StartDow, StartDom).scanned
  /\ PosterInit
  /\ GraphIdle
  /\ StrategyIdle
  /\ SessionIdle

Next ==
  \/ \E i \in 1..Len(calResult) : SchedulePost(i)
  \/ \E t \in 1..Len(timers) : FirePost(t)
  \/ \E e \in 1..Len(execs) : DeliverOk(e)
  \/ \E e \in 1..Len(execs) : DeliverFail(e)
  \/ \E e \in 1..Len(execs) : SaveOk(e)
  \/ \E e \in 1..Len(execs) : SaveFail(e)
  \/ Tick

Spec == Init /\ [][Next]_vars

(***************************************************************************)
(* SpecControl: the scheduler with its callers pausing, resuming and       *)
(* stopping tasks and closing the node during the start year, over a store *)
(* that has no failure of its own.                                         *)
(***************************************************************************)
NextControl ==
  \/ \E i \in 1..Len(calResult) : SchedulePost(i)
  \/ \E t \in 1..Len(timers) : FirePost(t)
  \/ \E e \in 1..Len(execs) : DeliverOk(e)
  \/ \E e \in 1..Len(execs) : SaveOk(e)
  \/ \E e \in 1..Len(execs) : SaveClosed(e)
  \/ TickWithinYear
  \/ \E id \in RegistryIds : PauseJob(id)
  \/ \E id \in RegistryIds : ResumeJob(id)
  \/ StopAllJobs
  \/ Close

SpecControl == Init /\ [][NextControl]_vars

(***************************************************************************)
(* LinkedInPersonalBrandingGraph.execute(initialState).  Every stage       *)
(* action is the wrapper executeX(state) together with the node's execute  *)
(* it awaits.                                                              *)
(***************************************************************************)
\* an Error object / an error text: the parts joined by ': '
ErrorOf(parts) == [message |-> parts]

\* state.setError(`${prefix}: ${error.message}`)
setError(st, prefix, error) ==
  [st EXCEPT !.error = ErrorOf(<<prefix>> \o error.message), !.status = "error"]

\* state.hasError()
hasError(st) == st.error # Null

\* the wrapper after the node returned: if (state.hasError()) throw new
\* Error(state.error), caught by the wrapper's own catch
StageWrapper(st, prefix) ==
  IF hasError(st) THEN setError(st, prefix, st.error) ELSE st

\* the record kept of a node's execute call: whether state.error was set
\* when it was called, and the calendar entry whose registration threw (0 for
\* none)
Executed(node, failedEntry) ==
  [node |-> node, errorBefore |-> hasError(state), failedEntry |-> failedEntry]

\* durations a caller passes: undefined or 0, values the front ends accept,
\* a negative one and the first one beyond MaxDuration
DurationSamples == {-1, 0, 1, 3, 7, MaxDuration, MaxDuration + 1}

\* topTrends of the research: no trend found, or the fallback's single trend
TrendSamples == {<< >>, <<"trends">>}

\* execute up to the first stage: llmConfig.initialize(), new state, the
\* properties of initialState copied when truthy
StartExecute ==
  /\ gpc = "idle"
  /\ \E llmOk \in BOOLEAN, hasUser \in BOOLEAN, hasIndustry \in BOOLEAN,
        hasKeywords \in BOOLEAN, duration \in DurationSamples :
       IF ~llmOk
       THEN /\ state' = setError(NewState, "Graph execution failed",
                                 ErrorOf(<<"Failed to initialize OpenAI model">>))
            /\ gpc' = "done"
       ELSE /\ state' =
                 [(IF hasUser
                   THEN updateUser(NewState, UserId, "token", "undefined",
                                   "undefined")
                   ELSE NewState) EXCEPT
                    !.industry = IF hasIndustry THEN "Technology" ELSE @,
                    !.duration = duration,
                    !.keywords = IF hasKeywords THEN "keywords" ELSE @]
            /\ gpc' = "profile"
  /\ UNCHANGED <<executed, content_calendar, calVars, posterVars, ctlVars,
                 stratVars, sessionVars>>

\* ProfileAnalyzerNode.execute
profileAnalyzerExecute(st, fetched) ==
  IF st.userId = "null"
  THEN setError(st, "Profile analysis failed",
                ErrorOf(<<"User ID is required for profile analysis">>))
  ELSE IF ~fetched
  THEN setError(st, "Profile analysis failed",
                ErrorOf(<<"Failed to fetch detailed profile">>))
  ELSE [st EXCEPT !.profileAnalysis = [contentMix |-> suggestContentMix],
                  !.status = "profile_analyzed"]

ExecuteProfileAnalysis ==
  /\ gpc = "profile"
  /\ \E fetched \in BOOLEAN :
       state' = StageWrapper(profileAnalyzerExecute(state, fetched),
                             "Profile analysis failed")
  /\ executed' = Append(executed, Executed("profileAnalyzer", 0))
  /\ gpc' = "research"
  /\ UNCHANGED <<content_calendar, calVars, posterVars, ctlVars, stratVars,
                 sessionVars>>

\* IndustryResearcherNode.execute: researchIndustryTrends falls back instead
\* of throwing and saveIndustryResearch always resolves
industryResearcherExecute(st, topTrends) ==
  IF st.industry = "undefined"
  THEN setError(st, "Industry research failed",
                ErrorOf(<<"Industry is required for research">>))
  ELSE [st EXCEPT !.industryResearch = [topTrends |-> topTrends],
                  !.status = "research_completed"]

ExecuteIndustryResearch ==
  /\ gpc = "research"
  /\ \E topTrends \in TrendSamples :
       state' = StageWrapper(industryResearcherExecute(state, topTrends),
                             "Industry research failed")
  /\ executed' = Append(executed, Executed("industryResearcher", 0))
  /\ gpc' = "strategy"
  /\ UNCHANGED <<content_calendar, calVars, posterVars, ctlVars, stratVars,
                 sessionVars>>

\* ContentStrategistNode.validateInput: the message it throws, << >> for none
strategistInvalid(st) ==
  IF st.profileAnalysis = Null
  THEN <<"Profile analysis is required for content strategy">>
  ELSE IF st.industryResearch = Null
  THEN <<"Industry research is required for content strategy">>
  ELSE IF st.duration = 0
  THEN <<"Duration is required for content calendar">>
  ELSE << >>

\* the rows saveContentStrategy inserts
CalendarRows(userId, calendar) ==
  [ i \in 1..Len(calendar) |->
      [ user_id        |-> userId,
        scheduled_date |-> calendar[i].date,
        scheduled_time |-> calendar[i].optimalTime,
        status         |-> calendar[i].status ] ]

\* ContentStrategistNode.execute; saved tells whether saveContentStrategy
\* resolved.  developContentStrategy has assigned to the contentMix object of
\* state.profileAnalysis by then.
contentStrategistExecute(st, saved) ==
  IF strategistInvalid(st) # << >>
  THEN setError(st, "Content strategy failed", ErrorOf(strategistInvalid(st)))
  ELSE LET strategy == developContentStrategy(st.profileAnalysis,
                                              st.industryResearch)
           calendar == createContentCalendar(st.duration, StartDow, StartDom)
           mixed    == [st EXCEPT !.profileAnalysis.contentMix =
                                     strategy.contentMix]
       IN  IF ~saved
           THEN setError(mixed, "Content strategy failed",
                         ErrorOf(<<"SQLITE_ERROR">>))
           ELSE [mixed EXCEPT !.contentStrategy = strategy,
                              !.calendar = [entries |-> calendar],
                              !.status = "strategy_developed"]

ExecuteContentStrategy ==
  /\ gpc = "strategy"
  /\ \E saved \in BOOLEAN :
       LET st == contentStrategistExecute(state, saved)
       IN  /\ state' = StageWrapper(st, "Content strategy failed")
           /\ content_calendar' =
                IF st.calendar # Null
                THEN content_calendar
                       \o CalendarRows(st.userId, st.calendar.entries)
                ELSE content_calendar
  /\ executed' = Append(executed, Executed("contentStrategist", 0))
  /\ gpc' = "posting"
  /\ UNCHANGED <<calVars, posterVars, ctlVars, stratVars, sessionVars>>

\* AutomatedPosterNode.validateInput: the message it throws, << >> for none
posterInvalid(st) ==
  IF st.userId = "null"
  THEN <<"User ID is required for automated posting">>
  ELSE IF st.accessToken = "null"
  THEN <<"LinkedIn access token is required">>
  ELSE IF st.contentStrategy = Null
  THEN <<"Content strategy is required">>
  ELSE IF st.calendar = Null
  THEN <<"Content calendar is required">>
  ELSE << >>

\* the loop of setupAutomatedPosting over the first n entries of calendar,
\* every schedulePost returning: the jobs, cron tasks and registry after it
setupAutomatedPosting(userId, calendar, n) ==
  LET planned == SelectSeq(SubSeq(calendar, 1, n),
                           LAMBDA entry : entry.status = "planned")
      made    == 1..Len(planned)
      ids     == { JobId(userId, planned[k].day) : k \in made }
      last(id) == CHOOSE k \in made :
                    /\ JobId(userId, planned[k].day) = id
                    /\ \A m \in made :
                         JobId(userId, planned[m].day) = id => m <= k
  IN  [ jobs   |-> jobs \o [k \in made |-> NewJob(userId, planned[k])],
        timers |-> timers \o [k \in made |->
                                NewPostTimer(userId, planned[k], Len(jobs) + k)],
        scheduledJobs |->
          [ id \in (DOMAIN scheduledJobs) \cup ids |->
              IF id \in ids THEN Len(timers) + last(id)
              ELSE scheduledJobs[id] ] ]

\* executeAutomatedPosting with AutomatedPosterNode.execute.  failAt is the
\* position of the calendar entry whose cron.schedule call threw (0 when
\* every call returned): the loop has no try, so the throw leaves
\* setupAutomatedPosting and execute's catch sets the error.  Back in
\* graph.execute, initialState.generateCSV decides whether the CSV export
\* follows.
ExecuteAutomatedPosting ==
  /\ gpc = "posting"
  /\ \E generateCSV \in BOOLEAN :
       gpc' = IF generateCSV THEN "csv" ELSE "done"
  /\ IF posterInvalid(state) # << >>
     THEN /\ state' = StageWrapper(
                         setError(state, "Automated posting failed",
                                  ErrorOf(posterInvalid(state))),
                         "Automated posting failed")
          /\ executed' = Append(executed, Executed("automatedPoster", 0))
          /\ UNCHANGED <<jobs, timers, scheduledJobs>>
     ELSE \E failAt \in 0..Len(state.calendar.entries), configSaved \in BOOLEAN :
            LET entries == state.calendar.entries
                n   == IF failAt = 0 THEN Len(entries) ELSE failAt - 1
                reg == setupAutomatedPosting(state.userId, entries, n)
                st  == IF failAt # 0
                       THEN setError(state, "Automated posting failed",
                                     ErrorOf(<<"cron.schedule threw">>))
                       ELSE IF ~configSaved
                       THEN setError(state, "Automated posting failed",
                                     ErrorOf(<<"SQLITE_ERROR">>))
                       ELSE [state EXCEPT
                               !.automatedPosting =
                                  [ postingJobs |->
                                      [k \in 1..(Len(reg.jobs) - Len(jobs)) |->
                                         Len(jobs) + k],
                                    status |-> "configured" ],
                               !.status = "automation_configured"]
            IN  /\ jobs' = reg.jobs
                /\ timers' = IF failAt = 0
                             THEN Append(reg.timers,
                                         NewEngagementTimer(state.userId))
                             ELSE reg.timers
                /\ scheduledJobs' =
                     IF failAt = 0
                     THEN MapSet(reg.scheduledJobs, EngagementId(state.userId),
                                 Len(reg.timers) + 1)
                     ELSE reg.scheduledJobs
                /\ state' = StageWrapper(st, "Automated posting failed")
                /\ executed' = Append(executed,
                                      Executed("automatedPoster", failAt))
  /\ UNCHANGED <<now, execs, runs, posts, content_calendar, calVars, ctlVars,
                 stratVars, sessionVars>>

\* the object literal executeLegacyContentGeneration creates: data
\* properties only, it has no method
LegacyState(st) ==
  [ brandTheme |-> IF st.industry = "undefined" THEN "Professional Development"
                   ELSE st.industry,
    duration   |-> IF st.duration = 0 THEN MaxDuration ELSE st.duration,
    topics     |-> << >>,
    error      |-> Null,
    methods    |-> {} ]

\* DayPlannerNode.execute(state): validateInput calls state.getBrandTheme()
\* and state.getDuration(); the catch block calls state.setError(...), and
\* what that call throws leaves execute.  A state with these methods comes
\* back with its topics or its error set.
dayPlannerExecute(legacy) ==
  IF "getBrandTheme" \notin legacy.methods
  THEN IF "setError" \notin legacy.methods
       THEN [ threw |-> TRUE,
              message |-> <<"state.setError is not a function">>,
              state |-> legacy ]
       ELSE [ threw |-> FALSE, message |-> << >>,
              state |-> [legacy EXCEPT
                           !.error = ErrorOf(<<"Day Planner failed">>)] ]
  ELSE IF legacy.duration < 1 \/ legacy.duration > MaxDuration
  THEN [ threw |-> FALSE, message |-> << >>,
         state |-> [legacy EXCEPT !.error = ErrorOf(<<"Day Planner failed">>)] ]
  ELSE [ threw |-> FALSE, message |-> << >>,
         state |-> [legacy EXCEPT !.topics = <<"topics">>] ]

\* executeLegacyContentGeneration: const legacyState = {...}; then
\* legacyState = await this.nodes.dayPlanner.execute(legacyState).  When the
\* awaited call returns, the assignment to the const binding throws a
\* TypeError; either way the catch block sets the error and the content
\* generator, the formatter and the save node are not called.
ExecuteLegacyContentGeneration ==
  /\ gpc = "csv"
  /\ gpc' = "done"
  /\ LET planned == dayPlannerExecute(LegacyState(state))
         message == IF planned.threw THEN planned.message
                    ELSE <<"Assignment to constant variable.">>
     IN  state' = setError(state, "CSV export failed", ErrorOf(message))
  /\ executed' = Append(executed, Executed("dayPlanner", 0))
  /\ UNCHANGED <<content_calendar, calVars, posterVars, ctlVars, stratVars,
                 sessionVars>>

(***************************************************************************)
(* SpecGraph: one run of graph.execute on a new graph, for every input and *)
(* every outcome of the calls the stages await.                            *)
(***************************************************************************)
InitGraph ==
  /\ calDuration = MainDuration
  /\ calStartDow = StartDow
  /\ calPc = "idle"
  /\ calResult = << >>
  /\ calScanned = {}
  /\ PosterInit
  /\ GraphIdle
  /\ StrategyIdle
  /\ SessionIdle

NextGraph ==
  \/ StartExecute
  \/ ExecuteProfileAnalysis
  \/ ExecuteIndustryResearch
  \/ ExecuteContentStrategy
  \/ ExecuteAutomatedPosting
  \/ ExecuteLegacyContentGeneration

SpecGraph == InitGraph /\ [][NextGraph]_vars

(***************************************************************************)
(* SpecStrategy: the strategist's functions called on one profileAnalysis  *)
(* and one industryResearch object, and selectContentType called on mixes  *)
(* of any shape.                                                           *)
\* hashtagStrategy arguments: the pools of a profile without skills whose
\* industry research fell back to the defaults, the same profile with two
\* skills, pools without a primary hashtag, four disjoint pools, and pools
\* whose skill is also a research suggestion
HashtagSamples ==
  { [ primary   |-> "#technology",
      secondary |-> << >>,
      trending  |-> << "#technology", "#technologytips" >>,
      general   |-> GeneralHashtags ],
    ProfileHashtagStrategy,
    [ primary   |-> "",
      secondary |-> << "#AI", "#Cloud" >>,
      trending  |-> << "#X" >>,
      general   |-> GeneralHashtags ],
    [ primary   |-> "#Tech",
      secondary |-> << "#AI", "#Cloud" >>,
      trending  |-> << "#X" >>,
      general   |-> << "#G1", "#G2", "#G3" >> ],
    [ primary   |-> "#Tech",
      secondary |-> << "#AI", "#Cloud", "#Data" >>,
      trending  |-> << "#AI", "#ai", "#X" >>,
      general   |-> << "#G1" >> ] }

(***************************************************************************)
\* contentMix arguments of selectContentType: the analyzer's mix, the mix
\* after optimizeContentMix, single-type mixes and mixes of small shares
MixSamples ==
  { suggestContentMix,
    optimizeContentMix(suggestContentMix, <<"trends">>),
    [educational |-> 100],
    [educational |-> 2],
    [personalStories |-> 0, engagement |-> 100],
    [educational |-> 1, personalStories |-> 2, engagement |-> 2] }

InitStrategy ==
  /\ calDuration = MainDuration
  /\ calStartDow = StartDow
  /\ calPc = "idle"
  /\ calResult = << >>
  /\ calScanned = {}
  /\ PosterInit
  /\ GraphIdle
  /\ profileAnalysis = [contentMix |-> suggestContentMix]
  /\ industryResearch \in [topTrends : TrendSamples]
  /\ strategies = << >>
  /\ selections = << >>
  /\ hashtagSelections = << >>
  /\ SessionIdle

\* one call developContentStrategy(profileAnalysis, industryResearch): the
\* strategy as it is at the return, and the arguments before and after.  The
\* strategy's contentMix is the contentMix object of profileAnalysis.
DevelopContentStrategy ==
  /\ Len(strategies) < MaxStrategyCalls
  /\ LET strategy == developContentStrategy(profileAnalysis, industryResearch)
     IN  /\ profileAnalysis' =
              [profileAnalysis EXCEPT !.contentMix = strategy.contentMix]
         /\ strategies' =
              Append(strategies,
                     [ strategy       |-> strategy,
                       analysisBefore |-> profileAnalysis,
                       analysisAfter  |-> profileAnalysis',
                       researchBefore |-> industryResearch,
                       researchAfter  |-> industryResearch ])
  /\ UNCHANGED <<industryResearch, selections, hashtagSelections, calVars,
                 posterVars, ctlVars, graphVars, sessionVars>>

\* one call selectContentType(contentMix, day)
SelectContentType ==
  /\ Len(selections) < MaxSelections
  /\ \E contentMix \in MixSamples, day \in 1..MaxDuration :
     \E contentType \in selectContentType(contentMix, day) :
       selections' = Append(selections, [ contentMix  |-> contentMix,
                                          day         |-> day,
                                          contentType |-> contentType ])
  /\ UNCHANGED <<profileAnalysis, industryResearch, strategies,
                 hashtagSelections, calVars, posterVars, ctlVars, graphVars,
                 sessionVars>>

\* one call selectHashtags(hashtagStrategy, day)
SelectHashtags ==
  /\ Len(hashtagSelections) < MaxHashtagSelections
  /\ \E hashtagStrategy \in HashtagSamples, day \in 1..MaxDuration :
       hashtagSelections' =
         Append(hashtagSelections,
                [ hashtagStrategy |-> hashtagStrategy,
                  day             |-> day,
                  hashtags        |-> selectHashtags(hashtagStrategy, day) ])
  /\ UNCHANGED <<profileAnalysis, industryResearch, strategies, selections,
                 calVars, posterVars, ctlVars, graphVars, sessionVars>>

NextStrategy ==
  \/ DevelopContentStrategy
  \/ SelectContentType
  \/ SelectHashtags

SpecStrategy == InitStrategy /\ [][NextStrategy]_vars

(***************************************************************************)
(* SpecState: one LinkedInPersonalBrandingState object and the calls of    *)
(* its methods in any order, together with the assignments graph.execute   *)
(* makes to the object's industry, duration and keywords.                  *)
(***************************************************************************)
InitState ==
  /\ calDuration = MainDuration
  /\ calStartDow = StartDow
  /\ calPc = "idle"
  /\ calResult = << >>
  /\ calScanned = {}
  /\ PosterInit
  /\ GraphIdle
  /\ StrategyIdle
  /\ SessionIdle

\* what a call of a method of the state object leaves alone
calleeFrame ==
  <<gpc, executed, content_calendar, calVars, posterVars, ctlVars, stratVars>>

UpdateUser ==
  /\ state' = updateUser(state, UserId, "token", "undefined", "undefined")
  /\ lastCall' = "updateUser"
  /\ UNCHANGED calleeFrame

\* if (initialState.industry) state.industry = initialState.industry, and
\* so for duration and keywords
AssignRunInputs ==
  /\ \E duration \in {0, 1, MaxDuration} :
       state' = [state EXCEPT !.industry = "Technology",
                              !.duration = IF duration # 0 THEN duration ELSE @,
                              !.keywords = "keywords"]
  /\ lastCall' = "execute"
  /\ UNCHANGED calleeFrame

UpdateProfileAnalysis ==
  /\ state' = updateProfileAnalysis(state, [contentMix |-> suggestContentMix])
  /\ lastCall' = "updateProfileAnalysis"
  /\ UNCHANGED calleeFrame

UpdateIndustryResearch ==
  /\ state' = updateIndustryResearch(state, [topTrends |-> << >>])
  /\ lastCall' = "updateIndustryResearch"
  /\ UNCHANGED calleeFrame

UpdateContentStrategy ==
  /\ state' = updateContentStrategy(state,
                [ strategy |-> developContentStrategy(
                                 [contentMix |-> suggestContentMix],
                                 [topTrends |-> << >>]),
                  calendar |-> [entries |-> << >>] ])
  /\ lastCall' = "updateContentStrategy"
  /\ UNCHANGED calleeFrame

UpdateAutomatedPosting ==
  /\ state' = updateAutomatedPosting(state, [ postingJobs |-> << >>,
                                              status |-> "configured" ])
  /\ lastCall' = "updateAutomatedPosting"
  /\ UNCHANGED calleeFrame

UpdateAnalytics ==
  /\ state' = updateAnalytics(state, ZeroAnalytics)
  /\ lastCall' = "updateAnalytics"
  /\ UNCHANGED calleeFrame

UpdatePerformanceMetrics ==
  /\ state' = updatePerformanceMetrics(state, ZeroAnalytics)
  /\ lastCall' = "updatePerformanceMetrics"
  /\ UNCHANGED calleeFrame

SetError ==
  /\ state' = setError(state, "failed", ErrorOf(<<"message">>))
  /\ lastCall' = "setError"
  /\ UNCHANGED calleeFrame

ClearError ==
  /\ state' = clearError(state)
  /\ lastCall' = "clearError"
  /\ UNCHANGED calleeFrame

Reset ==
  /\ state' = reset(state)
  /\ lastCall' = "reset"
  /\ UNCHANGED calleeFrame

NextState ==
  \/ UpdateUser
  \/ AssignRunInputs
  \/ UpdateProfileAnalysis
  \/ UpdateIndustryResearch
  \/ UpdateContentStrategy
  \/ UpdateAutomatedPosting
  \/ UpdateAnalytics
  \/ UpdatePerformanceMetrics
  \/ SetError
  \/ ClearError
  \/ Reset

SpecState == InitState /\ [][NextState]_vars

(***************************************************************************)
(* SpecTrack: the engagement tracker of a process started on the 8th day   *)
(* after the start date, over a store that earlier fires and earlier       *)
(* tracker runs have filled.                                               *)
(***************************************************************************)
\* posted_time of the stored rows: outside the tracking window and inside it
TrackPostTimes == {2, 5 * HoursPerDay + 2}

\* what an earlier tracker run can have stored on a row
StoredAnalytics ==
  {ZeroAnalytics, [likes |-> 3, comments |-> 1, shares |-> 1, impressions |-> 0]}

StoredRow(k, postedTime, analytics) ==
  [ id               |-> k,
    user_id          |-> UserId,
    job              |-> JobId(UserId, k),
    exec             |-> 0,
    status           |-> "posted",
    posted_time      |-> postedTime,
    linkedin_post_id |-> k,
    likes_count      |-> analytics.likes,
    comments_count   |-> analytics.comments,
    shares_count     |-> analytics.shares,
    reach_count      |-> analytics.impressions,
    engagement_score |-> EngagementScore(analytics) ]

InitTrack ==
  /\ calDuration = MainDuration
  /\ calStartDow = StartDow
  /\ calPc = "done"
  /\ calResult = createContentCalendar(MainDuration, StartDow, StartDom)
  /\ calScanned = CalendarLoop(1, MainDuration, StartDow, StartDom).scanned
  /\ now = 8 * HoursPerDay
  /\ jobs = << >>
  /\ timers = << >>
  /\ scheduledJobs = EmptyMap
  /\ execs = << >>
  /\ runs = << >>
  /\ db = "open"
  /\ stopLog = [timers |-> {}, inFlight |-> {}]
  /\ GraphIdle
  /\ StrategyIdle
  /\ SessionIdle
  /\ \E times \in [1..MaxTrackPosts -> TrackPostTimes] :
     \E stored \in [1..MaxTrackPosts -> StoredAnalytics] :
       /\ \A a \in 1..MaxTrackPosts : \A b \in 1..MaxTrackPosts :
            a < b => times[a] <= times[b]
       /\ posts = [k \in 1..MaxTrackPosts |-> StoredRow(k, times[k], stored[k])]

NextTrack ==
  \/ SetupEngagementTracking
  \/ TickToTracker
  \/ \E t \in 1..Len(timers) : FireTracker(t)
  \/ \E r \in 1..Len(runs) : TrackQueryOk(r)
  \/ \E r \in 1..Len(runs) : TrackQueryFail(r)
  \/ \E r \in 1..Len(runs) : TrackFetchOk(r)
  \/ \E r \in 1..Len(runs) : TrackFetchFail(r)
  \/ \E r \in 1..Len(runs) : TrackSaveOk(r)
  \/ \E r \in 1..Len(runs) : TrackSaveFail(r)

SpecTrack == InitTrack /\ [][NextTrack]_vars

(***************************************************************************)
(* SpecScore: savePostAnalytics on every metrics tuple of small counts.    *)
(* A trackEngagement run has fetched the tuple for the one recent row and  *)
(* awaits savePostAnalytics.                                               *)
(***************************************************************************)
MetricTuples ==
  [ likes : 0..MaxMetric, comments : 0..MaxMetric, shares : 0..MaxMetric,
    impressions : 0..MaxMetric ]

InitScore ==
  /\ calDuration = MainDuration
  /\ calStartDow = StartDow
  /\ calPc = "done"
  /\ calResult = createContentCalendar(MainDuration, StartDow, StartDom)
  /\ calScanned = CalendarLoop(1, MainDuration, StartDow, StartDom).scanned
  /\ now = 8 * HoursPerDay + TrackerHour
  /\ jobs = << >>
  /\ timers = << [NewEngagementTimer(UserId) EXCEPT !.spent = TRUE] >>
  /\ scheduledJobs = MapSet(EmptyMap, EngagementId(UserId), 1)
  /\ execs = << >>
  /\ posts = << StoredRow(1, 5 * HoursPerDay + 2, ZeroAnalytics) >>
  /\ \E analytics \in MetricTuples :
       runs = << [ pc |-> "save", firedAt |-> now, recent |-> << 1 >>,
                   i |-> 1, analytics |-> analytics, updated |-> {},
                   fetchFailed |-> {}, error |-> NoError ] >>
  /\ db = "open"
  /\ stopLog = [timers |-> {}, inFlight |-> {}]
  /\ GraphIdle
  /\ StrategyIdle
  /\ SessionIdle

NextScore ==
  \/ \E r \in 1..Len(runs) : TrackSaveOk(r)
  \/ \E r \in 1..Len(runs) : TrackSaveFail(r)

SpecScore == InitScore /\ [][NextScore]_vars

(***************************************************************************)
(* Claims about the scheduler (Spec).                                      *)
(***************************************************************************)
Execs == 1..Len(execs)
Jobs == 1..Len(jobs)
Rows == 1..Len(posts)

\* the rows the fires of job object j wrote
RowsOfJob(j) == { p \in Rows : posts[p].exec \in Execs /\ execs[posts[p].exec].job = j }

\* C1: at most one running timer exists per registry id, and one trigger time
\* causes at most one fire for an id.
C1_OneTimerPerId ==
  /\ \A a \in 1..Len(timers) : \A b \in 1..Len(timers) :
       (a # b /\ timers[a].key = timers[b].key)
         => ~(timers[a].running /\ timers[b].running)
  /\ \A e \in Execs : \A f \in Execs :
       (e # f /\ jobs[execs[e].job].id = jobs[execs[f].job].id)
         => execs[e].firedAt # execs[f].firedAt

\* C2: when the delivery of one fire fails, its job ends failed with the
\* error message recorded, and the step touches no timer, no registry entry,
\* no other fire, no other job and no stored row; a fire whose delivery and
\* save succeed marks its job posted whatever happened to the other fires;
\* and no step removes a fire or alters one that has ended.
C2_FailureIsolated ==
  [][ /\ Len(execs') >= Len(execs)
      /\ \A e \in Execs :
           /\ (execs[e].pc = "posting" /\ execs'[e].pc = "failed") =>
                /\ jobs'[execs[e].job].status = "failed"
                /\ jobs'[execs[e].job].error = "Failed to create post"
                /\ timers' = timers
                /\ scheduledJobs' = scheduledJobs
                /\ posts' = posts
                /\ \A f \in Execs : f # e => execs'[f] = execs[f]
                /\ \A k \in Jobs : k # execs[e].job => jobs'[k] = jobs[k]
           /\ (execs[e].pc = "saving" /\ execs'[e].pc = "posted") =>
                /\ jobs'[execs[e].job].status = "posted"
                /\ \A f \in Execs : f # e => execs'[f] = execs[f]
           /\ execs[e].pc \in {"posted", "failed"} => execs'[e] = execs[e]
    ]_vars

\* C2 witness: two fires of the same instant, one failed at delivery with its
\* job failed and the error recorded, the other posted with its job posted
\* and both timers still running.
C2_Witness ==
  \E e \in Execs : \E f \in Execs :
    /\ e # f
    /\ execs[e].job # execs[f].job
    /\ execs[e].firedAt = execs[f].firedAt
    /\ execs[e].pc = "failed"
    /\ jobs[execs[e].job].status = "failed"
    /\ jobs[execs[e].job].error = "Failed to create post"
    /\ execs[f].pc = "posted"
    /\ jobs[execs[f].job].status = "posted"
    /\ timers[execs[e].timer].running
    /\ timers[execs[f].timer].running

\* C3: a PostRecord written for a job exists if and only if the job's state
\* is posted.
C3_RecordIffPosted ==
  \A j \in Jobs : (RowsOfJob(j) # {}) <=> (jobs[j].status = "posted")

\* C4: a job's state leaves only scheduled, and once a job is posted or
\* failed no step changes it or starts another fire for it.
C4_TerminalStates ==
  [][ \A j \in Jobs :
        /\ jobs'[j].status # jobs[j].status => jobs[j].status = "scheduled"
        /\ jobs[j].status \in {"posted", "failed"} =>
             /\ jobs'[j] = jobs[j]
             /\ \A e \in 1..Len(execs') : e > Len(execs) => execs'[e].job # j
    ]_vars

\* C5: at most one PostRecord is persisted per job id.
C5_OneRecordPerJobId ==
  \A p \in Rows : \A q \in Rows : posts[p].job = posts[q].job => p = q

\* C6: every entry schedulePost registers a timer for has its date +
\* optimalTime in the future, and the trigger time of the job it creates is
\* in the future, at the time of the call.
C6_TriggerInFuture ==
  [][ Len(jobs') > Len(jobs) =>
        LET job == jobs'[Len(jobs')]
        IN  /\ job.scheduledTime > now
            /\ \A i \in 1..Len(calResult) :
                 calResult[i].day = job.day =>
                   calResult[i].date * HoursPerDay
                     + ClockHour(calResult[i].optimalTime) > now
    ]_vars

(***************************************************************************)
(* Claims about pausing, resuming and stopping (SpecControl).              *)
(***************************************************************************)
Timers == 1..Len(timers)

C12_NoFireAfterStopAll ==
  [][ /\ stopLog'.timers # stopLog.timers => scheduledJobs' = EmptyMap
      /\ \A e \in 1..Len(execs') :
           e > Len(execs) => execs'[e].timer \notin stopLog.timers
    ]_vars

\* C13: a fire that was in flight at a bulk stop is not removed, and when its
\* post was delivered its save ends with the row stored and the job posted.
C13_InFlightCompletes ==
  [][ \A e \in stopLog.inFlight :
        /\ e <= Len(execs')
        /\ (execs[e].pc = "posting" /\ execs'[e].pc # "posting") =>
             execs'[e].pc \in {"saving", "failed"}
        /\ (execs[e].pc = "saving" /\ execs'[e].pc # "saving") =>
             /\ execs'[e].pc = "posted"
             /\ jobs'[execs[e].job].status = "posted"
             /\ \E p \in 1..Len(posts') : posts'[p].exec = e
    ]_vars

(***************************************************************************)
(* Claims about the engagement tracker (SpecTrack).                        *)
(***************************************************************************)
Metrics(row) ==
  << row.likes_count, row.comments_count, row.shares_count, row.reach_count,
     row.engagement_score >>

\* C9: when the metrics fetch failed for a record, the run leaves the
\* record's stored likes, comments, shares, reach and engagementScore as they
\* were.
C9_FailedFetchLeavesRecord ==
  [][ \A r \in 1..Len(runs) :
        (runs[r].pc = "save" /\ runs'[r].pc # "save"
           /\ runs[r].recent[runs[r].i] \in runs[r].fetchFailed)
          => Metrics(posts'[runs[r].recent[runs[r].i]])
               = Metrics(posts[runs[r].recent[runs[r].i]])
    ]_vars

\* C10: a failed metrics fetch does not end the loop: in every run the rows
\* before the loop position are all updated, and a run that ended without a
\* database error has updated every eligible row it read, the ones after a
\* failed fetch included.
C10_LoopSurvivesFetchFailure ==
  \A r \in 1..Len(runs) :
    LET run == runs[r]
        eligible(k) == posts[run.recent[k]].linkedin_post_id # NoId
    IN  /\ \A k \in 1..Len(run.recent) :
             (k < run.i /\ eligible(k)) => run.recent[k] \in run.updated
        /\ (run.pc = "done" /\ run.error # "SQLITE_ERROR") =>
             \A k \in 1..Len(run.recent) :
               eligible(k) => run.recent[k] \in run.updated
        /\ run.fetchFailed \subseteq
             { run.recent[k] : k \in 1..Len(run.recent) }

\* C10 witness: a finished run over two rows whose first fetch failed and
\* whose second row was fetched and updated with the provider's counts.
C10_Witness ==
  \E r \in 1..Len(runs) :
    /\ runs[r].pc = "done"
    /\ runs[r].error = NoError
    /\ Len(runs[r].recent) = 2
    /\ runs[r].fetchFailed = { runs[r].recent[1] }
    /\ runs[r].updated = { runs[r].recent[1], runs[r].recent[2] }
    /\ posts[runs[r].recent[2]].likes_count = 1
    /\ posts[runs[r].recent[2]].reach_count = 4

(***************************************************************************)
(* Claims about the graph run (SpecGraph).                                 *)
(***************************************************************************)
\* C14: no node's execute is called in a run once a stage has set
\* state.error.
C14_AbortAtFirstError ==
  \A k \in 1..Len(executed) : ~executed[k].errorBefore

\* C15: a run whose duration is outside 1..MaxDuration persists no calendar
\* row, creates no job and registers no timer, and it ends in error.
C15_BadDurationRejected ==
  (gpc # "idle" /\ state.duration \notin 1..MaxDuration) =>
    /\ content_calendar = << >>
    /\ jobs = << >>
    /\ timers = << >>
    /\ gpc = "done" => hasError(state)

\* C16: when the registration of one calendar entry threw in
\* setupAutomatedPosting, every other entry of the calendar is registered
\* under its job id and the run has not ended in error.
C16_EntryFailureIsolated ==
  \A k \in 1..Len(executed) :
    executed[k].failedEntry # 0 =>
      /\ ~hasError(state)
      /\ \A i \in 1..Len(state.calendar.entries) :
           i # executed[k].failedEntry =>
             JobId(state.userId, state.calendar.entries[i].day)
               \in DOMAIN scheduledJobs

(***************************************************************************)
(* Claims about the run summary (Spec).                                    *)
(***************************************************************************)
\* exportSummary(): calendar is state.calendar, whose entries are the objects
\* the jobs hold as calendarEntry; automatedPosting.postingJobs are the job
\* objects
exportSummary == [calendar |-> calResult, postingJobs |-> jobs]

\* C17: in the run summary the calendar entry of every scheduled job no
\* longer reads planned, and once the job is posted or failed the entry shows
\* that status, with the job's error text when failed.
C17_SummaryShowsFinalStatus ==
  \A j \in Jobs : \A i \in 1..Len(exportSummary.calendar) :
    LET entry == exportSummary.calendar[i]
    IN  entry.day = jobs[j].day =>
          /\ entry.status # "planned"
          /\ jobs[j].status \in {"posted", "failed"} =>
               entry.status = jobs[j].status
          /\ jobs[j].status = "failed" =>
               ("error" \in DOMAIN entry /\ entry.error = jobs[j].error)

(***************************************************************************)
(* Claims about the strategist's functions (SpecStrategy).                 *)
(***************************************************************************)
RECURSIVE SumOver(_, _)
\* the sum of the percentages of the content types in keys
SumOver(contentMix, keys) ==
  IF keys = {} THEN 0
  ELSE LET t == CHOOSE x \in keys : TRUE
       IN  contentMix[t] + SumOver(contentMix, keys \ {t})

MixSum(contentMix) == SumOver(contentMix, DOMAIN contentMix)

\* C18: developContentStrategy leaves its arguments as they were, and the
\* calls made with the same profileAnalysis and industryResearch return equal
\* strategies.
C18_StrategyDeterministic ==
  /\ \A k \in 1..Len(strategies) :
       /\ strategies[k].analysisAfter = strategies[k].analysisBefore
       /\ strategies[k].researchAfter = strategies[k].researchBefore
  /\ \A k \in 1..Len(strategies) : \A m \in 1..Len(strategies) :
       strategies[k].strategy = strategies[m].strategy

\* C19: the contentMix of every strategy developContentStrategy returns sums
\* to 100.
C19_MixSumsTo100 ==
  \A k \in 1..Len(strategies) :
    MixSum(strategies[k].strategy.contentMix) = 100

\* C20: the content type selectContentType returns for a contentMix and a
\* day is a key of that contentMix, and it is educational for the mix
\* {educational: 100}.
C20_SelectedTypeIsKey ==
  \A k \in 1..Len(selections) :
    /\ selections[k].contentType \in DOMAIN selections[k].contentMix
    /\ selections[k].contentMix = [educational |-> 100] =>
         selections[k].contentType = "educational"

(***************************************************************************)
(* C21: for any hashtag pools and any day index, the list selectHashtags   *)
(* returns has at most five entries, holds no value twice, and holds the   *)
(* primary hashtag whenever one is configured.                             *)
(***************************************************************************)
NoValueTwice(list) ==
  \A i, j \in 1..Len(list) : list[i] = list[j] => i = j

C21_HashtagsFewDistinctWithPrimary ==
  \A k \in 1..Len(hashtagSelections) :
    LET call == hashtagSelections[k]
    IN  /\ Len(call.hashtags) <= 5
        /\ NoValueTwice(call.hashtags)
        /\ call.hashtagStrategy.primary # ""
             => \E i \in 1..Len(call.hashtags) :
                  call.hashtags[i] = call.hashtagStrategy.primary

(***************************************************************************)
(* C22: within one executePost the text is synthesized before the delivery *)
(* call starts, the delivery call has returned a delivery id before the    *)
(* record is persisted, and no record is persisted for a post whose        *)
(* delivery did not succeed.                                               *)
(***************************************************************************)
C22_SynthesisDeliveryRecordOrder ==
  [][ /\ \A e \in 1..Len(execs') :
           IF e > Len(execs)
           THEN \* the delivery call starts: the text is complete
                /\ execs'[e].pc = "posting"
                /\ execs'[e].content = generateContent(jobs[execs'[e].job])
                /\ Len(execs'[e].content) > 0
                /\ execs'[e].postId = NoId
           ELSE \* the text handed over is not synthesized again
                execs'[e].content = execs[e].content
      /\ \A r \in (Len(posts) + 1)..Len(posts') :
           \* a record is persisted: the delivery had returned an id
           LET e == posts'[r].exec
           IN  /\ e \in 1..Len(execs)
               /\ execs[e].pc = "saving"
               /\ execs[e].postId # NoId
               /\ posts'[r].linkedin_post_id = execs[e].postId
      /\ \A e \in 1..Len(execs') :
           execs'[e].postId = NoId
             => \A r \in 1..Len(posts') : posts'[r].exec # e
    ]_vars

\* one invocation persisted its record after its delivery returned, another
\* one's delivery failed and left no record
C22_Witness ==
  /\ \E r \in 1..Len(posts) :
       /\ execs[posts[r].exec].pc = "posted"
       /\ execs[posts[r].exec].postId = posts[r].linkedin_post_id
       /\ Len(execs[posts[r].exec].content) > 0
  /\ \E e \in 1..Len(execs) :
       /\ execs[e].pc = "failed"
       /\ execs[e].postId = NoId
       /\ \A r \in 1..Len(posts) : posts[r].exec # e

(***************************************************************************)
(* C24: the text executePost hands to createTextPost ends with the         *)
(* calendar entry's hashtags joined by single spaces, whenever the entry   *)
(* has at least one hashtag.                                               *)
(***************************************************************************)
EndsWith(text, suffix) ==
  /\ Len(text) >= Len(suffix)
  /\ SubSeq(text, Len(text) - Len(suffix) + 1, Len(text)) = suffix

C24_ContentEndsWithHashtags ==
  \A e \in 1..Len(execs) :
    LET entry == jobs[execs[e].job].calendarEntry
    IN  Len(entry.hashtags) > 0
          => EndsWith(execs[e].content, Join(entry.hashtags, " "))

(***************************************************************************)
(* C25: the trigger of a job falls on its entry's date at the time of day  *)
(* its optimalTime names as a 12-hour clock time with AM/PM marker.        *)
(***************************************************************************)
C25_TriggerAtClockTime ==
  \A t \in PostTimers :
    LET entry == jobs[timers[t].job].calendarEntry
        at == entry.date * HoursPerDay + ClockHour(entry.optimalTime)
    IN  /\ timers[t].cron.hour = HourOf(at)
        /\ timers[t].cron.date = DateOf(at)
        /\ jobs[timers[t].job].scheduledTime = at

(***************************************************************************)
(* C26: whenever createTextPost accepted the post, the job ends posted     *)
(* with the delivery id recorded, even if persisting the record fails.     *)
(***************************************************************************)
C26_DeliveredEndsPosted ==
  [][ \A e \in 1..Len(execs) :
        (execs[e].pc = "saving" /\ execs'[e].pc # "saving")
          => /\ execs'[e].pc = "posted"
             /\ jobs'[execs[e].job].status = "posted"
             /\ jobs'[execs[e].job].linkedinPostId = execs[e].postId
    ]_vars

(***************************************************************************)
(* C23: for every metrics tuple the tracker stores engagementScore =       *)
(* (likes + 2*comments + 3*shares) / max(reach, 1); a record with reach 0  *)
(* gets the undivided weighted sum.  A score is the pair of its numerator  *)
(* and denominator.                                                        *)
(***************************************************************************)
C23_ScoreIsWeightedSumOverReach ==
  \A r \in 1..Len(runs) : \A id \in runs[r].updated :
    LET row == posts[id]
        weighted == row.likes_count + 2 * row.comments_count
                      + 3 * row.shares_count
    IN  /\ row.likes_count = runs[r].analytics.likes
        /\ row.comments_count = runs[r].analytics.comments
        /\ row.shares_count = runs[r].analytics.shares
        /\ row.reach_count = runs[r].analytics.impressions
        /\ row.engagement_score =
             << weighted, IF row.reach_count >= 1 THEN row.reach_count ELSE 1 >>
        /\ row.reach_count = 0 => row.engagement_score = << weighted, 1 >>

\* a tuple with reach 0 and a positive weighted sum was stored, undivided
C23_Witness ==
  \E r \in 1..Len(runs) : \E id \in runs[r].updated :
    /\ posts[id].reach_count = 0
    /\ posts[id].likes_count = 1
    /\ posts[id].comments_count = 2
    /\ posts[id].shares_count = 1
    /\ posts[id].engagement_score = << 8, 1 >>

(***************************************************************************)
(* C27: if AutomatedPosterNode.execute returns an error state, no posting  *)
(* or tracking timer registered during that call remains active.           *)
(***************************************************************************)
PosterReturnedError ==
  /\ \E k \in 1..Len(executed) : executed[k].node = "automatedPoster"
  /\ hasError(state)
  /\ state.error.message[1] = "Automated posting failed"

C27_SetupAllOrNothing ==
  PosterReturnedError => \A t \in 1..Len(timers) : ~timers[t].running

(***************************************************************************)
(* C29: when generateCSV is requested and the four main stages succeeded,  *)
(* execute runs the legacy day planner, content generator, formatter and   *)
(* save stages in that order and returns a state without error.            *)
(***************************************************************************)
C29_LegacyStagesRunInOrder ==
  gpc = "done" =>
    \A k \in 1..Len(executed) :
      (executed[k].node = "dayPlanner" /\ ~executed[k].errorBefore)
        => /\ Len(executed) = k + 3
           /\ executed[k + 1].node = "contentGenerator"
           /\ executed[k + 2].node = "formatter"
           /\ executed[k + 3].node = "save"
           /\ ~hasError(state)

(***************************************************************************)
(* C28: after any sequence of updateUser, update*, setError, clearError    *)
(* and reset calls, status is 'error' exactly when error is non-null, that *)
(* is exactly when hasError() is true.                                     *)
(***************************************************************************)
C28_StatusErrorIffHasError ==
  (state.status = "error") <=> hasError(state)

(***************************************************************************)
(* C30: reset() returns the state to that of a freshly constructed         *)
(* instance: no value supplied to an earlier run, the industry, duration   *)
(* and keywords included, is still readable after it.                      *)
(***************************************************************************)
C30_ResetRestoresNewState ==
  lastCall = "reset" => state = NewState

====
